---- MODULE Spec2Model ----
(***************************************************************************)
(* A model of package intree (src/intree.go): a static, flat, augmented    *)
(* interval tree.  NewINTree copies the caller's intervals into two        *)
(* parallel slices (indexes, limits), sorts them by lower limit with a     *)
(* random-pivot quicksort and augments every slot with the maximum upper   *)
(* limit of its implicit subtree; Including walks the implicit tree with   *)
(* an explicit stack.                                                      *)
(*                                                                         *)
(* float64 limits are modelled by integers: the code only copies and       *)
(* compares them (<, <=, >), and the finite doubles are totally ordered.   *)
(* Go slices are 0-based; At and Put address a sequence 0-based, so        *)
(* At(limits, 3*i+1) is the code's limits[3*i+1].                          *)
(***************************************************************************)
EXTENDS Integers, Sequences, FiniteSets

\* ------------------------------------------------------------ bounds
\* Largest number of intervals handed to NewINTree.
MaxN == 3

\* Lower limits range over (-1)..MaxLower.
MaxLower == 0

\* Upper limits are -1 or in 1..MaxUpper, below and above the 0.0 at which
\* augment starts its maximum; query points range over (-1)..MaxUpper.
MaxUpper == 1

\* Largest number of intervals when two calls of Including run concurrently.
MaxConcN == 2

Lowers == (-1)..MaxLower

Uppers == {-1} \cup (1..MaxUpper)

Vals == (-1)..MaxUpper

\* The goroutines that may call Including; "main" is the only one of a
\* single-threaded caller.
Callers == {"main", "other"}

Interval == [lower : Lowers, upper : Uppers]

InputsUpTo(n) == UNION {[1..k -> Interval] : k \in 0..n}

VARIABLES
    bounds,     \* the caller's collection handed to NewINTree
    pc,         \* "new" | "build" | "built": where the construction stands
    frames,     \* pending calls of sort and augment, the next one first
    indexes,    \* INTree.indexes
    limits,     \* INTree.limits: lower, upper, subtree maximum per slot
    callers,    \* the goroutines calling Including on the built tree
    cpc,        \* per caller: "idle" | "loop" | "returned" | "panic"
    val,        \* per caller: the argument of its call of Including
    idxStock,   \* per caller: the local stack of range boundaries
    result      \* per caller: the local result slice

vars == <<bounds, pc, frames, indexes, limits, callers, cpc, val, idxStock, result>>

tree == <<indexes, limits>>
build == <<bounds, pc, frames, indexes, limits, callers>>
calls == <<cpc, val, idxStock, result>>

\* ------------------------------------------------------------ slices
At(s, k) == s[k + 1]

Put(s, k, v) == [s EXCEPT ![k + 1] = v]

InRange(s, k) == 0 <= k /\ k < Len(s)

\* ------------------------------------------------------------ buildTree
\* The slices after the copy loop of buildTree, before sort.
InitIndexes(b) == [i \in 1..Len(b) |-> i - 1]

InitLimits(b) ==
    [k \in 1..(3 * Len(b)) |->
        LET i == (k - 1) \div 3
            j == (k - 1) % 3
        IN  IF j = 0 THEN b[i + 1].lower
            ELSE IF j = 1 THEN b[i + 1].upper
            ELSE 0]

\* buildTree / buildTreeV: allocate and fill the slices, then sort and augment
\* the whole of them.
BuildTree ==
    /\ pc = "new"
    /\ pc' = "build"
    /\ indexes' = InitIndexes(bounds)
    /\ limits' = InitLimits(bounds)
    /\ frames' = << [fn |-> "sort", off |-> 0, len |-> Len(bounds)],
                    [fn |-> "augment", off |-> 0, len |-> Len(bounds)] >>
    /\ UNCHANGED <<bounds, callers, calls>>

\* ------------------------------------------------------------ sort
\* A slice pair as the functions see it: t.indexes, t.limits.  The
\* recursive calls receive sub-slices of the same backing arrays; the model
\* addresses them by their offset off and length len in the whole slices.

\* The in-place exchange of slots a and b: the index and the three limit
\* entries of a slot move together (Go evaluates the right-hand sides first).
\* (Faulty variant: only the index and the lower limit are exchanged.)
SwapLowerOnly(t, a, b) ==
    [indexes |-> Put(Put(t.indexes, a, At(t.indexes, b)), b, At(t.indexes, a)),
     limits  |-> Put(Put(t.limits, 3 * a, At(t.limits, 3 * b)),
                     3 * b, At(t.limits, 3 * a))]

\* The exchange as the code writes it.
Swap(t, a, b) ==
    [indexes |-> Put(Put(t.indexes, a, At(t.indexes, b)), b, At(t.indexes, a)),
     limits  |->
        Put(Put(Put(Put(Put(Put(t.limits,
            3 * a,     At(t.limits, 3 * b)),
            3 * a + 1, At(t.limits, 3 * b + 1)),
            3 * a + 2, At(t.limits, 3 * b + 2)),
            3 * b,     At(t.limits, 3 * a)),
            3 * b + 1, At(t.limits, 3 * a + 1)),
            3 * b + 2, At(t.limits, 3 * a + 2))]

\* The comparison of the partition loop: limits[3*i] < limits[3*r].
PivotLess(x, pivot) == x < pivot

\* The partition loop `for i := range indexes`, from iteration i on, with l
\* slots already moved to the left; r is the last slot of the slice.  The
\* pivot limits[3*r] is read again in every iteration.
RECURSIVE PartitionLoop(_, _, _, _, _)
PartitionLoop(t, off, len, i, l) ==
    IF i = len THEN [t |-> t, l |-> l]
    ELSE IF PivotLess(At(t.limits, 3 * (off + i)), At(t.limits, 3 * (off + len - 1)))
         THEN PartitionLoop(Swap(t, off + l, off + i), off, len, i + 1, l + 1)
         ELSE PartitionLoop(t, off, len, i + 1, l)

\* The pivots rand.Int() % len(indexes) can yield: rand.Int() is non-negative.
Pivots(len) == 0..(len - 1)

\* One call of sort on a slice of at least two slots, with pivot p: the pivot
\* goes to the end, the partition loop runs, the pivot goes to slot l.
\* (Faulty variant: the pivot is left at the end of the slice.)
PartitionNoFinalSwap(t, off, len, p) ==
    PartitionLoop(Swap(t, off + p, off + len - 1), off, len, 0, 0)

\* The call as the code writes it.
Partition(t, off, len, p) ==
    LET q == PartitionLoop(Swap(t, off + p, off + len - 1), off, len, 0, 0)
    IN  [t |-> Swap(q.t, off + q.l, off + len - 1), l |-> q.l]

\* The two recursive calls of sort, on limits[:3*l] and limits[3*l+3:].
\* (Faulty variant: the right call keeps the pivot slot, limits[3*l:].)
SortCallsKeepPivot(off, len, l) ==
    << [fn |-> "sort", off |-> off, len |-> l],
       [fn |-> "sort", off |-> off + l, len |-> len - l] >>

\* The calls as the code writes them.
SortCalls(off, len, l) ==
    << [fn |-> "sort", off |-> off, len |-> l],
       [fn |-> "sort", off |-> off + l + 1, len |-> len - l - 1] >>

\* A call of sort on a slice shorter than two slots returns at once.
SortReturn ==
    /\ pc = "build"
    /\ frames # << >>
    /\ Head(frames).fn = "sort"
    /\ Head(frames).len < 2
    /\ frames' = Tail(frames)
    /\ UNCHANGED <<bounds, pc, indexes, limits, callers, calls>>

\* A call of sort on a longer slice: pick a pivot, partition, recurse.
SortCall ==
    /\ pc = "build"
    /\ frames # << >>
    /\ Head(frames).fn = "sort"
    /\ Head(frames).len >= 2
    /\ \E p \in Pivots(Head(frames).len) :
         LET f == Head(frames)
             q == Partition([indexes |-> indexes, limits |-> limits], f.off, f.len, p)
         IN  /\ indexes' = q.t.indexes
             /\ limits' = q.t.limits
             /\ frames' = SortCalls(f.off, f.len, q.l) \o Tail(frames)
    /\ UNCHANGED <<bounds, pc, callers, calls>>

\* ------------------------------------------------------------ augment
\* The scan of augment from slot idx of the slice on: the largest upper limit
\* above the running maximum, which starts at 0.0.
RECURSIVE ScanMax(_, _, _, _, _)
ScanMax(lim, off, len, idx, max) ==
    IF idx = len THEN max
    ELSE IF At(lim, 3 * (off + idx) + 1) > max
         THEN ScanMax(lim, off, len, idx + 1, At(lim, 3 * (off + idx) + 1))
         ELSE ScanMax(lim, off, len, idx + 1, max)

\* r := len(indexes) >> 1
\* (Faulty variant: the lower of the two middle slots, (len - 1) >> 1.)
AugmentCenterLow(len) == (len - 1) \div 2

\* The centre as the code writes it.
AugmentCenter(len) == len \div 2

\* limits[3*r+2] = max
AugmentWrite(lim, off, len) ==
    Put(lim, 3 * (off + AugmentCenter(len)) + 2, ScanMax(lim, off, len, 0, 0))

\* The two recursive calls of augment, on limits[:3*r] and limits[3*r+3:].
AugmentCalls(off, len) ==
    LET r == AugmentCenter(len)
    IN  << [fn |-> "augment", off |-> off, len |-> r],
           [fn |-> "augment", off |-> off + r + 1, len |-> len - r - 1] >>

\* A call of augment on an empty slice returns at once.
AugmentReturn ==
    /\ pc = "build"
    /\ frames # << >>
    /\ Head(frames).fn = "augment"
    /\ Head(frames).len < 1
    /\ frames' = Tail(frames)
    /\ UNCHANGED <<bounds, pc, indexes, limits, callers, calls>>

AugmentCall ==
    /\ pc = "build"
    /\ frames # << >>
    /\ Head(frames).fn = "augment"
    /\ Head(frames).len >= 1
    /\ limits' = AugmentWrite(limits, Head(frames).off, Head(frames).len)
    /\ frames' = AugmentCalls(Head(frames).off, Head(frames).len) \o Tail(frames)
    /\ UNCHANGED <<bounds, pc, indexes, callers, calls>>

\* buildTree returns, and NewINTree hands the tree to the caller.
BuildReturn ==
    /\ pc = "build"
    /\ frames = << >>
    /\ pc' = "built"
    /\ UNCHANGED <<bounds, frames, indexes, limits, callers, calls>>

\* ------------------------------------------------------------ Including
\* idxStock := []int{0, len(t.indexes) - 1}
\* (Faulty variant: the right boundary is len(t.indexes).)
InitStockPastEnd(idx) == <<0, Len(idx)>>

\* The stack as the code writes it.
InitStock(idx) == <<0, Len(idx) - 1>>

\* lBoundIdx == rBoundIdx+1: the popped range is empty.
\* (Faulty variant: `>` for `==`.)
IsEmptyRangeStrict(lBoundIdx, rBoundIdx) == lBoundIdx > rBoundIdx + 1

\* The test as the code writes it.
IsEmptyRange(lBoundIdx, rBoundIdx) == lBoundIdx = rBoundIdx + 1

\* int(math.Ceil(float64(lBoundIdx+rBoundIdx) / 2.0)): the sum of two slice
\* positions is an integer a float64 holds exactly, so this is the ceiling of
\* the half (\div rounds down, also below zero).
CenterIdx(lBoundIdx, rBoundIdx) == (lBoundIdx + rBoundIdx + 1) \div 2

\* val <= lowerLimit, where lowerLimit is limits[3*centerIdx+2]
DescendLeft(v, lowerLimit) == v <= lowerLimit

\* l <= val, where l is limits[3*centerIdx]
DescendRight(l, v) == l <= v

\* val <= upperLimit, where upperLimit is limits[3*centerIdx+1]
\* (Faulty variants: an exclusive upper limit; no test of the upper limit.)
MatchesBelowUpper(v, upperLimit) == v < upperLimit

MatchesAlways(v, upperLimit) == TRUE

\* The test as the code writes it.
Matches(v, upperLimit) == v <= upperLimit

\* result = append(result, t.indexes[centerIdx])
\* (Faulty variant: the position is appended twice.)
CollectTwice(res, i) == Append(Append(res, i), i)

\* The append as the code writes it.
Collect(res, i) == Append(res, i)

\* The stack and the result after the body of the loop for the non-empty range
\* lBoundIdx..rBoundIdx, rest being the stack below the popped pair.
StockAfter(t, v, lBoundIdx, rBoundIdx, rest) ==
    LET centerIdx == CenterIdx(lBoundIdx, rBoundIdx)
        left == IF DescendLeft(v, At(t.limits, 3 * centerIdx + 2))
                THEN rest \o <<lBoundIdx, centerIdx - 1>>
                ELSE rest
    IN  IF DescendRight(At(t.limits, 3 * centerIdx), v)
        THEN left \o <<centerIdx + 1, rBoundIdx>>
        ELSE left

ResultAfter(t, v, lBoundIdx, rBoundIdx, res) ==
    LET centerIdx == CenterIdx(lBoundIdx, rBoundIdx)
    IN  IF /\ DescendRight(At(t.limits, 3 * centerIdx), v)
           /\ Matches(v, At(t.limits, 3 * centerIdx + 1))
        THEN Collect(res, At(t.indexes, centerIdx))
        ELSE res

\* Reading limits[3*centerIdx+2] outside the slice panics; it is the first
\* read of the body, and limits is three times as long as indexes, so the
\* reads after it are in range when it is.
Readable(t, centerIdx) == InRange(t.limits, 3 * centerIdx + 2)

\* The body of the loop for a non-empty range: what it leaves of the tree
\* (which it only reads), of the stack and of the result.
\* (Faulty variant: a query point above limits[3*centerIdx+2] is stored there.)
VisitRaisingMax(t, v, lBoundIdx, rBoundIdx, rest, res) ==
    LET centerIdx == CenterIdx(lBoundIdx, rBoundIdx)
    IN  IF ~Readable(t, centerIdx)
        THEN [indexes |-> t.indexes, limits |-> t.limits, idxStock |-> rest,
              result |-> res, panic |-> TRUE]
        ELSE [indexes  |-> t.indexes,
              limits   |-> IF v > At(t.limits, 3 * centerIdx + 2)
                           THEN Put(t.limits, 3 * centerIdx + 2, v)
                           ELSE t.limits,
              idxStock |-> StockAfter(t, v, lBoundIdx, rBoundIdx, rest),
              result   |-> ResultAfter(t, v, lBoundIdx, rBoundIdx, res),
              panic    |-> FALSE]

\* (Faulty variant: the query point is stored in limits[3*centerIdx+2].)
VisitStoringVal(t, v, lBoundIdx, rBoundIdx, rest, res) ==
    LET centerIdx == CenterIdx(lBoundIdx, rBoundIdx)
    IN  IF ~Readable(t, centerIdx)
        THEN [indexes |-> t.indexes, limits |-> t.limits, idxStock |-> rest,
              result |-> res, panic |-> TRUE]
        ELSE [indexes  |-> t.indexes,
              limits   |-> Put(t.limits, 3 * centerIdx + 2, v),
              idxStock |-> StockAfter(t, v, lBoundIdx, rBoundIdx, rest),
              result   |-> ResultAfter(t, v, lBoundIdx, rBoundIdx, res),
              panic    |-> FALSE]

\* The body as the code writes it.
Visit(t, v, lBoundIdx, rBoundIdx, rest, res) ==
    LET centerIdx == CenterIdx(lBoundIdx, rBoundIdx)
    IN  IF ~Readable(t, centerIdx)
        THEN [indexes |-> t.indexes, limits |-> t.limits, idxStock |-> rest,
              result |-> res, panic |-> TRUE]
        ELSE [indexes  |-> t.indexes,
              limits   |-> t.limits,
              idxStock |-> StockAfter(t, v, lBoundIdx, rBoundIdx, rest),
              result   |-> ResultAfter(t, v, lBoundIdx, rBoundIdx, res),
              panic    |-> FALSE]

\* One pass of `for len(idxStock) > 0`: pop the right and the left boundary,
\* skip an empty range, visit any other.
LoopPass(t, v, stk, res) ==
    LET rBoundIdx == stk[Len(stk)]
        lBoundIdx == stk[Len(stk) - 1]
        rest == SubSeq(stk, 1, Len(stk) - 2)
    IN  IF IsEmptyRange(lBoundIdx, rBoundIdx)
        THEN [indexes |-> t.indexes, limits |-> t.limits, idxStock |-> rest,
              result |-> res, panic |-> FALSE]
        ELSE Visit(t, v, lBoundIdx, rBoundIdx, rest, res)

\* A caller enters Including(v) on the built tree.
IncludingCall(c) ==
    /\ pc = "built"
    /\ c \in callers
    /\ cpc[c] \in {"idle", "returned"}
    /\ \E v \in Vals : val' = [val EXCEPT ![c] = v]
    /\ cpc' = [cpc EXCEPT ![c] = "loop"]
    /\ idxStock' = [idxStock EXCEPT ![c] = InitStock(indexes)]
    /\ result' = [result EXCEPT ![c] = << >>]
    /\ UNCHANGED build

\* One pass of the loop of caller c.
IncludingLoop(c) ==
    /\ cpc[c] = "loop"
    /\ idxStock[c] # << >>
    /\ LET o == LoopPass([indexes |-> indexes, limits |-> limits],
                         val[c], idxStock[c], result[c])
       IN  /\ indexes' = o.indexes
           /\ limits' = o.limits
           /\ idxStock' = [idxStock EXCEPT ![c] = o.idxStock]
           /\ result' = [result EXCEPT ![c] = o.result]
           /\ cpc' = [cpc EXCEPT ![c] = IF o.panic THEN "panic" ELSE "loop"]
    /\ UNCHANGED <<bounds, pc, frames, callers, val>>

\* The stack is empty: Including returns result.
IncludingReturn(c) ==
    /\ cpc[c] = "loop"
    /\ idxStock[c] = << >>
    /\ cpc' = [cpc EXCEPT ![c] = "returned"]
    /\ UNCHANGED <<build, val, idxStock, result>>

\* ------------------------------------------------------------ specifications
InitCalls ==
    /\ cpc = [c \in Callers |-> "idle"]
    /\ val = [c \in Callers |-> 0]
    /\ idxStock = [c \in Callers |-> << >>]
    /\ result = [c \in Callers |-> << >>]

InitTree ==
    /\ pc = "new"
    /\ frames = << >>
    /\ indexes = << >>
    /\ limits = << >>

\* A single-threaded caller with any collection of up to MaxN intervals.
Init ==
    /\ bounds \in InputsUpTo(MaxN)
    /\ callers = {"main"}
    /\ InitTree
    /\ InitCalls

\* Every goroutine of Callers queries the tree built from up to MaxConcN
\* intervals.
InitConc ==
    /\ bounds \in InputsUpTo(MaxConcN)
    /\ callers = Callers
    /\ InitTree
    /\ InitCalls

Next ==
    \/ BuildTree
    \/ SortReturn
    \/ SortCall
    \/ AugmentReturn
    \/ AugmentCall
    \/ BuildReturn
    \/ \E c \in Callers : IncludingCall(c)
    \/ \E c \in Callers : IncludingLoop(c)
    \/ \E c \in Callers : IncludingReturn(c)

Spec == Init /\ [][Next]_vars

\* Every step of the program is a step of running code, which the scheduler
\* does not starve.
FairSpec == Init /\ [][Next]_vars /\ WF_vars(Next)

ConcSpec == InitConc /\ [][Next]_vars

\* ------------------------------------------------------------ properties
N == Len(bounds)

Positions == 0..(N - 1)

\* The interval at original position i contains v, both ends included.
Contains(i, v) == bounds[i + 1].lower <= v /\ v <= bounds[i + 1].upper

\* The linear scan over the caller's collection.
Scan(v) == {i \in Positions : Contains(i, v)}

Malformed(i) == bounds[i + 1].lower > bounds[i + 1].upper

Elems(s) == {s[k] : k \in 1..Len(s)}

Returned(c) == c \in callers /\ cpc[c] = "returned"

\* C1: when Including(val) has returned, the set of positions in its result is
\* exactly the set of original positions whose interval contains val, as a
\* linear scan over the input finds it, both limits inclusive.
C1_ResultIsScan ==
    \A c \in Callers : Returned(c) => Elems(result[c]) = Scan(val[c])

\* A full-size input with a repeated lower limit, a query that some but not
\* all intervals contain, one of them exactly at its upper limit.
C1_Witness ==
    /\ Returned("main")
    /\ N = MaxN
    /\ Cardinality(Scan(val["main"])) >= 2
    /\ Scan(val["main"]) # Positions
    /\ \E i, j \in Positions : i # j /\ bounds[i + 1].lower = bounds[j + 1].lower
    /\ \E i \in Scan(val["main"]) : bounds[i + 1].upper = val["main"]
    /\ Elems(result["main"]) = Scan(val["main"])

\* C2: the result of Including(val) is as long as the number of input
\* intervals containing val, identical intervals counted separately, and no
\* position occurs in it twice.
C2_EachMatchOnce ==
    \A c \in Callers :
        Returned(c) =>
            /\ Len(result[c]) = Cardinality(Scan(val[c]))
            /\ \A j, k \in 1..Len(result[c]) : j # k => result[c][j] # result[c][k]

\* Two identical intervals that both contain the query point, both returned.
C2_Witness ==
    /\ Returned("main")
    /\ \E i, j \in Positions :
          /\ i # j
          /\ bounds[i + 1] = bounds[j + 1]
          /\ Contains(i, val["main"])
          /\ {i, j} \subseteq Elems(result["main"])
    /\ Len(result["main"]) = 2

\* C3: the tree built from an empty collection has zero-length slices, and a
\* call of Including on it never reads them (any read of a zero-length slice
\* panics): its stack is the initial pair (0, -1) or, once that is popped and
\* skipped, empty, and its result stays empty.
C3_EmptyTree ==
    (N = 0 /\ pc # "new") =>
        /\ indexes = << >>
        /\ limits = << >>
        /\ \A c \in Callers :
              /\ cpc[c] # "panic"
              /\ result[c] = << >>
              /\ idxStock[c] \in {<< >>, <<0, -1>>}

\* Including has returned on the tree of an empty collection.
C3_Witness ==
    /\ N = 0
    /\ pc = "built"
    /\ Returned("main")
    /\ result["main"] = << >>

\* C4: once NewINTree has returned, no step changes indexes or limits.
C4_TreeFrozen == [][pc = "built" => tree' = tree]_vars

\* A call has visited every slot of a full-size tree and returned.
C4_Witness ==
    /\ pc = "built"
    /\ Returned("main")
    /\ N = MaxN
    /\ Len(result["main"]) = MaxN

\* What Including(v) returns when it runs alone on the tree t: the passes of
\* its loop from the initial stack until the stack is empty.
RECURSIVE RunAlone(_, _, _, _)
RunAlone(t, v, stk, res) ==
    IF stk = << >> THEN res
    ELSE LET o == LoopPass(t, v, stk, res)
         IN  IF o.panic THEN <<"panic">>
             ELSE RunAlone([indexes |-> o.indexes, limits |-> o.limits],
                           v, o.idxStock, o.result)

\* C5: under every interleaving of the passes of concurrent calls, a call that
\* has returned holds the result it returns when run alone on the tree.
C5_SameAsAlone ==
    \A c \in Callers :
        /\ cpc[c] # "panic"
        /\ Returned(c) =>
              result[c] = RunAlone([indexes |-> indexes, limits |-> limits],
                                   val[c], InitStock(indexes), << >>)

\* One call has returned matches while another call, with another query
\* point, is in the middle of its loop.
C5_Witness ==
    /\ callers = Callers
    /\ Returned("main")
    /\ result["main"] # << >>
    /\ cpc["other"] = "loop"
    /\ val["other"] # val["main"]
    /\ idxStock["other"] # << >>
    /\ result["other"] # << >>

Busy == pc = "build" \/ \E c \in Callers : cpc[c] = "loop"

\* C7: the build and every call of Including terminate: for every input,
\* every choice of pivots and every query point, an operation in progress
\* comes to its end, so that again and again none is in progress.
C7_Terminates == []<>(~Busy)

\* The argument behind C7, as a variant: a slice of len slots weighs
\* 2*len + 1, more than the two shorter slices a call or a visit replaces it
\* by, so every step of an operation in progress lowers the weight of its
\* pending work, which is a natural number.
Weight(len) == 2 * len + 1

RECURSIVE FramesWeight(_)
FramesWeight(fs) ==
    IF fs = << >> THEN 0 ELSE Weight(Head(fs).len) + FramesWeight(Tail(fs))

RECURSIVE StockWeight(_)
StockWeight(stk) ==
    IF Len(stk) < 2 THEN 0
    ELSE Weight(stk[2] - stk[1] + 1) + StockWeight(SubSeq(stk, 3, Len(stk)))

BuildVariant == IF pc = "build" THEN 1 + FramesWeight(frames) ELSE 0

CallVariant(c) == IF cpc[c] = "loop" THEN 1 + StockWeight(idxStock[c]) ELSE 0

C7_VariantDecreases ==
    [][/\ pc = "build" => BuildVariant' < BuildVariant
       /\ \A c \in Callers :
             (cpc[c] = "loop" /\ <<cpc[c], idxStock[c]>>' # <<cpc[c], idxStock[c]>>)
                 => CallVariant(c)' < CallVariant(c)]_vars

\* A full-size input whose lower limits are all equal has been built and
\* queried to the end.
C7_Witness ==
    /\ pc = "built"
    /\ N = MaxN
    /\ \A i \in Positions : bounds[i + 1].lower = bounds[1].lower
    /\ Returned("main")
    /\ idxStock["main"] = << >>

\* C8: from the copy loop of buildTree on, through every swap of sort and
\* after the build, indexes is a bijection on [0, n) and slot i holds the
\* lower and upper limit of the input interval at position indexes[i].
C8_SlotsArePermutation ==
    pc # "new" =>
        /\ Len(indexes) = N
        /\ Len(limits) = 3 * N
        /\ Elems(indexes) = Positions
        /\ \A i \in Positions :
              /\ At(limits, 3 * i) = bounds[At(indexes, i) + 1].lower
              /\ At(limits, 3 * i + 1) = bounds[At(indexes, i) + 1].upper

\* The build has moved slots of a full-size input with distinct intervals.
C8_Witness ==
    /\ pc = "built"
    /\ N = MaxN
    /\ \A i, j \in Positions : i # j => bounds[i + 1] # bounds[j + 1]
    /\ \E i \in Positions : At(indexes, i) # i
    /\ \E i, j \in Positions : At(limits, 3 * i + 1) # At(limits, 3 * j + 1)

\* sort has returned: no call of it is pending.
SortDone ==
    \/ pc = "built"
    \/ pc = "build" /\ \A k \in 1..Len(frames) : frames[k].fn # "sort"

\* C9: once sort has returned, and so after the build, the lower limits are
\* non-decreasing across the slots.
C9_LowerSorted ==
    SortDone =>
        \A i, j \in 0..(Len(indexes) - 1) :
            i <= j => At(limits, 3 * i) <= At(limits, 3 * j)

\* A full-size input that was not sorted and repeats a lower limit, built.
C9_Witness ==
    /\ pc = "built"
    /\ N = MaxN
    /\ \E i, j \in Positions : i < j /\ bounds[i + 1].lower > bounds[j + 1].lower
    /\ \E i, j \in Positions : i # j /\ bounds[i + 1].lower = bounds[j + 1].lower

\* The slots of the implicit subtree rooted at slot i: the slice off, len
\* whose centre is i, found by descending from the whole slice.
RECURSIVE SubtreeSlots(_, _, _)
SubtreeSlots(i, off, len) ==
    LET center == off + AugmentCenter(len)
    IN  IF i = center THEN off..(off + len - 1)
        ELSE IF i < center THEN SubtreeSlots(i, off, center - off)
        ELSE SubtreeSlots(i, center + 1, off + len - center - 1)

MaxOf(S) == CHOOSE x \in S : \A y \in S : y <= x

\* C10: after the build, limits[3*i+2] is the maximum of the upper limits of
\* the slots of the implicit subtree rooted at slot i.
C10_SubtreeMax ==
    pc = "built" =>
        \A i \in Positions :
            At(limits, 3 * i + 2) =
                MaxOf({At(limits, 3 * j + 1) : j \in SubtreeSlots(i, 0, N)})

\* The range pairs (l, r) held by a stack of Including.
Pairs(stk) == {<<stk[2 * k - 1], stk[2 * k]>> : k \in 1..(Len(stk) \div 2)}

\* The non-empty slices, as <<off, len>>, that augment is called on when it
\* is called on the slice off, len.
RECURSIVE AugmentRanges(_, _)
AugmentRanges(off, len) ==
    IF len < 1 THEN {}
    ELSE LET cs == AugmentCalls(off, len)
         IN  {<<off, len>>} \cup AugmentRanges(cs[1].off, cs[1].len)
                            \cup AugmentRanges(cs[2].off, cs[2].len)

\* C11: augment and Including choose the same centre: for every non-empty
\* slice a pending call of augment is about to centre, and for every
\* non-empty range on a stack of Including, the slot off + (len >> 1) of
\* augment is the slot ceil((l + r) / 2) of Including; and every such range
\* of Including is a slice augment was called on, so the subtree maximum
\* Including reads at its centre was written by augment for that range.
C11_SameCenter ==
    /\ \A k \in 1..Len(frames) :
          (frames[k].fn = "augment" /\ frames[k].len >= 1) =>
              frames[k].off + AugmentCenter(frames[k].len)
                  = CenterIdx(frames[k].off, frames[k].off + frames[k].len - 1)
    /\ \A c \in Callers : \A lr \in Pairs(idxStock[c]) :
          lr[1] <= lr[2] =>
              /\ <<lr[1], lr[2] - lr[1] + 1>> \in AugmentRanges(0, Len(indexes))
              /\ lr[1] + AugmentCenter(lr[2] - lr[1] + 1) = CenterIdx(lr[1], lr[2])

\* A call has visited a range of two slots, whose two middle slots differ,
\* at the upper one, where augment wrote the maximum of both: the ranges
\* left and right of slot 1 are on its stack.
C11_Witness ==
    /\ pc = "built"
    /\ N = 2
    /\ cpc["main"] = "loop"
    /\ At(limits, 3 * 1 + 2) = MaxUpper
    /\ {<<0, 0>>, <<2, 1>>} \subseteq Pairs(idxStock["main"])

\* C12: in every state of a call of Including the stack holds an even number
\* of entries, pairs (l, r) with 0 <= l <= r + 1 <= n, so that an empty range
\* on it has exactly l = r + 1; the centre of every other pair lies in l..r,
\* the reads of limits[3*centre], limits[3*centre+1], limits[3*centre+2] and
\* indexes[centre] are within the slices, and no call panics.
C12_StockPairsInBounds ==
    \A c \in Callers :
        /\ cpc[c] # "panic"
        /\ Len(idxStock[c]) % 2 = 0
        /\ \A lr \in Pairs(idxStock[c]) :
              /\ 0 <= lr[1]
              /\ lr[1] <= lr[2] + 1
              /\ lr[2] + 1 <= Len(indexes)
              /\ ~IsEmptyRange(lr[1], lr[2]) =>
                    LET centerIdx == CenterIdx(lr[1], lr[2])
                    IN  /\ lr[1] <= centerIdx
                        /\ centerIdx <= lr[2]
                        /\ InRange(limits, 3 * centerIdx)
                        /\ InRange(limits, 3 * centerIdx + 1)
                        /\ InRange(limits, 3 * centerIdx + 2)
                        /\ InRange(indexes, centerIdx)

\* A call on a full-size tree has visited the last slot: the empty range
\* right of it, (n, n - 1), is on the stack above a range not yet visited.
C12_Witness ==
    /\ pc = "built"
    /\ N = MaxN
    /\ cpc["main"] = "loop"
    /\ <<N, N - 1>> \in Pairs(idxStock["main"])
    /\ \E lr \in Pairs(idxStock["main"]) : lr[1] <= lr[2]
    /\ Len(idxStock["main"]) >= 6

====
